---- MODULE Spec2Model ----
(***************************************************************************)
(* elfbin: Builder writes an ELF relocatable object holding one global     *)
(* data symbol per registered source.  The output stream is modelled byte  *)
(* for byte; the properties read the produced file back with an            *)
(* independent decoder, the way src/tests.rs reads it with an ELF reader.  *)
(***************************************************************************)
EXTENDS Integers, Sequences, FiniteSets, TLC

VARIABLES w, class, encoding, headmap, rodata_pos, current_rodata_offset,
          symbols, symbol_names, shstrtab, calls, closed, failures, panics,
          given, wide

vars == <<w, class, encoding, headmap, rodata_pos, current_rodata_offset,
          symbols, symbol_names, shstrtab, calls, closed, failures, panics,
          given, wide>>

(* ------------------------------ bounds --------------------------------- *)

\* largest number of symbols registered on one Builder
MaxSyms == 3

(* ---------------------------- enum values ------------------------------ *)

ELF32 == 1
ELF64 == 2
LSB == 1
MSB == 2

ET_REL == 1
SHT_NULL == 0
SHT_PROGBITS == 1
SHT_SYMTAB == 2
SHT_STRTAB == 3
SHF_ALLOC == 2
SHF_STRINGS == 32

SHSTRTAB_SHSTRTAB == 1
SHSTRTAB_STRTAB == 11
SHSTRTAB_SYMTAB == 19
SHSTRTAB_RODATA == 27

\* b"\x00.shstrtab\x00.strtab\x00.symtab\x00.rodata\x00"
SHSTRTAB ==
    <<0, 46, 115, 104, 115, 116, 114, 116, 97, 98,
      0, 46, 115, 116, 114, 116, 97, 98,
      0, 46, 115, 121, 109, 116, 97, 98,
      0, 46, 114, 111, 100, 97, 116, 97, 0>>

(* ------------------------------ inputs --------------------------------- *)

\* Header values handed to Builder::new (machine 0x28, flags 0x05000000)
Headers ==
    { [class |-> c, encoding |-> e, machine |-> 40, flags |-> 83886080] :
        c \in {ELF32, ELF64}, e \in {LSB, MSB} }

\* (name, source bytes) pairs handed to add_symbol / add_symbol_align:
\* "A" <- "ay", "B" <- "bee", and "A" again with an empty source
SymbolInputs ==
    { [name |-> <<65>>, src |-> <<97, 121>>],
      [name |-> <<66>>, src |-> <<98, 101, 101>>],
      [name |-> <<65>>, src |-> << >>] }

\* (name, alignment, source bytes) triples handed to add_symbol_align: a
\* non power of two, an alignment larger than either class width, and
\* alignment 1 with an empty source
AlignedInputs ==
    { [name |-> <<65>>, alignment |-> 3, src |-> <<97, 121>>],
      [name |-> <<66>>, alignment |-> 16, src |-> <<98, 101, 101>>],
      [name |-> <<67, 67>>, alignment |-> 1, src |-> << >>] }

\* (name, alignment, source bytes) triples with alignments that are powers
\* of two (1, 2) and that are not (3, 5, 6)
AnyAlignedInputs ==
    { [name |-> <<65>>, alignment |-> 1, src |-> <<97, 121>>],
      [name |-> <<66>>, alignment |-> 2, src |-> <<98, 101, 101>>],
      [name |-> <<65>>, alignment |-> 3, src |-> <<97, 121>>],
      [name |-> <<66>>, alignment |-> 5, src |-> <<98, 101, 101>>],
      [name |-> <<67, 67>>, alignment |-> 6, src |-> <<97>>] }

\* (name, source bytes) pairs handed to add_symbol_align with alignment 0
ZeroAlignedInputs ==
    { [name |-> <<65>>, src |-> <<97, 121>>],
      [name |-> <<66>>, src |-> << >>] }

\* names handed to set_section_name: ".d" and "data"
SectionNames == { <<46, 100>>, <<100, 97, 116, 97>> }

(* ------------------------- integer conversions ------------------------- *)

\* 256^n for the byte positions a checkable value occupies (the checker's
\* integers are below 2^31, so every byte above the fourth is zero)
Pow256(n) == IF n = 0 THEN 1 ELSE
             IF n = 1 THEN 256 ELSE
             IF n = 2 THEN 65536 ELSE 16777216

\* `x as u16`, `x as u32`: the low 16 / 32 bits
AsU16(x) == x % 65536
AsU32(x) == ((x \div 65536) % 65536) * 65536 + (x % 65536)

\* byte k (0 = least significant) of v
ByteOf(v, k) == IF k > 3 THEN 0 ELSE (v \div Pow256(k)) % 256

\* Pack ignoring the byte order: always least significant byte first
Pack_LSBOnly(v, n, enc) == [i \in 1..n |-> ByteOf(v, i - 1)]

\* binbin's fixed-width integer serialisation in the Writer's byte order:
\* the n low-order bytes of v, least significant first for LSB and most
\* significant first for MSB
Pack(v, n, enc) ==
    [i \in 1..n |-> IF enc = LSB THEN ByteOf(v, i - 1) ELSE ByteOf(v, n - i)]

Zeros(n) == [i \in 1..n |-> 0]

(* ------------------------- 64-bit quantities -------------------------- *)

\* A u64 as four 16-bit limbs, least significant first, so that values of
\* 2^32 and above can be written down.  WideValues has 0, 1, 2^32 - 1,
\* 2^32, 2^64 - 1 and 76 more.
WideLimbs == {0, 1, 65535}

WideValues == [1..4 -> WideLimbs]

\* byte k (0 = least significant) of a limb sequence
WideByte(v, k) ==
    LET l == v[(k \div 2) + 1]
    IN IF k % 2 = 0 THEN l % 256 ELSE l \div 256

\* `x as u32` saturating at u32::MAX instead of wrapping
CastU32_Saturating(v) ==
    IF v[3] # 0 \/ v[4] # 0 THEN <<65535, 65535>> ELSE <<v[1], v[2]>>

\* `x as u32` on a u64: the cast keeps the low 32 bits and cannot fail
CastU32(v) == <<v[1], v[2]>>

\* binbin's write of a u32 (two limbs) or u64 (four limbs) in the Writer's
\* byte order
PackWide(v, enc) ==
    LET n == 2 * Len(v)
    IN [i \in 1..n |->
          IF enc = LSB THEN WideByte(v, i - 1) ELSE WideByte(v, n - i)]

\* no 64-bit quantity has been written
NoWide == [kind |-> "none"]

(* ------------------------- the seekable stream ------------------------- *)

\* A Write + Seek destination: its bytes, its position, and the list of
\* writes that landed on bytes already written (the back-patches).
EmptyStream == [buf |-> << >>, pos |-> 0, ow |-> << >>]

\* the bytes after writing at offset pos: bytes in range are replaced, the
\* buffer grows when the write runs past its end (a gap is zero-filled)
WriteAt(buf, pos, bytes) ==
    IF pos >= Len(buf)
    THEN buf \o Zeros(pos - Len(buf)) \o bytes
    ELSE SubSeq(buf, 1, pos) \o bytes
         \o SubSeq(buf, pos + Len(bytes) + 1, Len(buf))

\* write bytes at the current position and advance
Write(s, bytes) ==
    IF Len(bytes) = 0 THEN s
    ELSE [buf |-> WriteAt(s.buf, s.pos, bytes),
          pos |-> s.pos + Len(bytes),
          ow |-> IF s.pos < Len(s.buf)
                 THEN Append(s.ow, [at |-> s.pos, len |-> Len(bytes)])
                 ELSE s.ow]

Seek(s, p) == [s EXCEPT !.pos = p]

\* Writer::resolve: overwrite the deferred slot, then return to where the
\* cursor was
Resolve(s, at, bytes) == Seek(Write(Seek(s, at), bytes), s.pos)

\* Writer::align(n): zero-fill up to the next multiple of n
\* an align that pads a full unit when the position is already aligned
AlignPad_AlwaysPads(pos, n) == n - (pos % n)

AlignPad(pos, n) == (n - (pos % n)) % n
Align(s, n) == Write(s, Zeros(AlignPad(s.pos, n)))

(* ----------------------------- the header ------------------------------ *)

write_ident(hdr) ==
    <<127, 69, 76, 70>> \o <<hdr.class>> \o <<hdr.encoding>> \o <<1>> \o <<0>>
    \o Zeros(8)

\* write_hdr_32 with the header size taken at the deferred slot instead of
\* after the last field
write_hdr_32_EarlySize(hdr, s) ==
    LET e == hdr.encoding
        s1 == Write(s, write_ident(hdr)
                       \o Pack(ET_REL, 2, e) \o Pack(hdr.machine, 2, e)
                       \o Pack(1, 4, e) \o Pack(0, 4, e) \o Pack(0, 4, e))
        shoff_pos == s1.pos
        s2 == Write(s1, Pack(0, 4, e) \o Pack(hdr.flags, 4, e))
        header_size_dfr == s2.pos
        s3 == Write(s2, Pack(0, 2, e) \o Pack(0, 2, e) \o Pack(0, 2, e)
                        \o Pack(40, 2, e) \o Pack(5, 2, e) \o Pack(1, 2, e))
        \* the header size is taken before the last three fields are counted
        pos == AsU16(header_size_dfr)
        s4 == Resolve(s3, header_size_dfr, Pack(pos, 2, e))
        s5 == Align(s4, 4)
    IN [w |-> s5, headmap |-> [section_header_offset_field |-> shoff_pos]]

write_hdr_32(hdr, s) ==
    LET e == hdr.encoding
        s1 == Write(s, write_ident(hdr)
                       \o Pack(ET_REL, 2, e) \o Pack(hdr.machine, 2, e)
                       \o Pack(1, 4, e) \o Pack(0, 4, e) \o Pack(0, 4, e))
        shoff_pos == s1.pos
        s2 == Write(s1, Pack(0, 4, e) \o Pack(hdr.flags, 4, e))
        header_size_dfr == s2.pos
        s3 == Write(s2, Pack(0, 2, e) \o Pack(0, 2, e) \o Pack(0, 2, e)
                        \o Pack(40, 2, e) \o Pack(5, 2, e) \o Pack(1, 2, e))
        pos == AsU16(s3.pos)
        s4 == Resolve(s3, header_size_dfr, Pack(pos, 2, e))
        s5 == Align(s4, 4)
    IN [w |-> s5, headmap |-> [section_header_offset_field |-> shoff_pos]]

write_hdr_64(hdr, s) ==
    LET e == hdr.encoding
        s1 == Write(s, write_ident(hdr)
                       \o Pack(ET_REL, 2, e) \o Pack(hdr.machine, 2, e)
                       \o Pack(1, 4, e) \o Pack(0, 8, e) \o Pack(0, 8, e))
        shoff_pos == s1.pos
        s2 == Write(s1, Pack(0, 8, e) \o Pack(hdr.flags, 4, e))
        header_size_dfr == s2.pos
        s3 == Write(s2, Pack(0, 2, e) \o Pack(0, 2, e) \o Pack(0, 2, e)
                        \o Pack(64, 2, e) \o Pack(5, 2, e) \o Pack(1, 2, e))
        pos == AsU16(s3.pos)
        s4 == Resolve(s3, header_size_dfr, Pack(pos, 2, e))
        s5 == Align(s4, 8)
    IN [w |-> s5, headmap |-> [section_header_offset_field |-> shoff_pos]]

\* Builder::new: the fields of the Builder it returns
New(hdr, target) ==
    LET r == IF hdr.class = ELF32 THEN write_hdr_32(hdr, target)
                                  ELSE write_hdr_64(hdr, target)
    IN [w |-> r.w,
        class |-> hdr.class,
        encoding |-> hdr.encoding,
        headmap |-> r.headmap,
        rodata_pos |-> r.w.pos,
        current_rodata_offset |-> 0,
        symbols |-> << >>,
        symbol_names |-> << >>,
        shstrtab |-> SHSTRTAB]

Init ==
    \E hdr \in Headers :
        LET b == New(hdr, EmptyStream)
        IN /\ w = b.w
           /\ class = b.class
           /\ encoding = b.encoding
           /\ headmap = b.headmap
           /\ rodata_pos = b.rodata_pos
           /\ current_rodata_offset = b.current_rodata_offset
           /\ symbols = b.symbols
           /\ symbol_names = b.symbol_names
           /\ shstrtab = b.shstrtab
           /\ calls = << >>
           /\ closed = FALSE
           /\ failures = 0
           /\ panics = 0
           /\ wide = NoWide
           /\ given = [called |-> FALSE, last |-> << >>]

(* ------------------------- symbol accumulation ------------------------- *)

\* set_section_name appending the new name to the table as it stands
set_section_name_Append(name) ==
    /\ ~closed
    /\ shstrtab' = shstrtab \o name \o <<0>>
    /\ UNCHANGED <<w, class, encoding, headmap, rodata_pos,
                   current_rodata_offset, symbols, symbol_names, calls,
                   closed, failures, panics, wide>>

set_section_name(name) ==
    /\ ~closed
    /\ shstrtab' = SubSeq(SHSTRTAB, 1, SHSTRTAB_RODATA) \o name \o <<0>>
    /\ UNCHANGED <<w, class, encoding, headmap, rodata_pos,
                   current_rodata_offset, symbols, symbol_names, calls,
                   closed, failures, panics, wide>>

\* PadSkip writing pad_err bytes instead of alignment - pad_err
PadSkip_PadErr(offset, alignment) == offset % alignment

\* the number of b" " bytes written before the data: the iterations of
\* `for _ in pad_err..alignment`, taken only when pad_err != 0
PadSkip(offset, alignment) ==
    LET pad_err == offset % alignment
    IN IF pad_err # 0 THEN alignment - pad_err ELSE 0

\* MakeSymbol recording the cursor before the padding as the offset
MakeSymbol_NoSkip(offset, skip, length, alignment) ==
    [rodata_offset |-> offset,
     size |-> length,
     padded_size |-> length + skip,
     alignment |-> alignment]

\* MakeSymbol leaving the padding out of padded_size
MakeSymbol_PaddedIsSize(offset, skip, length, alignment) ==
    [rodata_offset |-> offset + skip,
     size |-> length,
     padded_size |-> length,
     alignment |-> alignment]

\* the Symbol that add_symbol_align records and returns
MakeSymbol(offset, skip, length, alignment) ==
    [rodata_offset |-> offset + skip,
     size |-> length,
     padded_size |-> length + skip,
     alignment |-> alignment]

\* write_symbol_data: std::io::copy of the whole source to the writer
write_symbol_data(src, s) == [w |-> Write(s, src), len |-> Len(src)]

\* PadBytes filling with zero bytes
PadBytes_Zero(skip) == [i \in 1..skip |-> 0]

\* the padding written before a symbol's data: skip times b" "
PadBytes(skip) == [i \in 1..skip |-> 32]

\* no I/O error during the call
NoFault == -1

\* add_symbol_align taking alignment 0 as "no alignment": the data is written
\* at the cursor and the Symbol is registered
AddSymbolAlignOn_ZeroUnaligned(b, name, alignment, src, fault) ==
    LET offset == b.current_rodata_offset
        skip == IF alignment = 0 THEN 0 ELSE PadSkip(offset, alignment)
        r == write_symbol_data(src, Write(b.w, PadBytes(skip)))
        sym == MakeSymbol(offset, skip, r.len, alignment)
    IN [b |-> [b EXCEPT
                 !.w = r.w,
                 !.symbols = Append(b.symbols, sym),
                 !.symbol_names = Append(b.symbol_names, name),
                 !.current_rodata_offset =
                     b.current_rodata_offset + sym.padded_size],
        ok |-> TRUE]

\* add_symbol_align pushing the Symbol and its name before the padding and
\* the data are written, so that a failed call leaves them registered
AddSymbolAlignOn_PushFirst(b, name, alignment, src, fault) ==
    LET offset == b.current_rodata_offset
        skip == PadSkip(offset, alignment)
        pad == PadBytes(skip)
        sym == MakeSymbol(offset, skip, Len(src), alignment)
        taken == IF fault = NoFault THEN pad \o src
                 ELSE SubSeq(pad \o src, 1, fault)
    IN [b |-> [b EXCEPT
                 !.w = Write(b.w, taken),
                 !.symbols = Append(b.symbols, sym),
                 !.symbol_names = Append(b.symbol_names, name),
                 !.current_rodata_offset =
                     IF fault = NoFault
                     THEN b.current_rodata_offset + sym.padded_size
                     ELSE b.current_rodata_offset],
        ok |-> fault = NoFault]

\* The body of add_symbol_align on the Builder fields b.  fault is the
\* number of bytes the destination took before an I/O error ended the call
\* (NoFault: none did): an error in a padding write_all when fault < skip,
\* otherwise an error of std::io::copy after fault - skip bytes of the
\* source.  Either `?` returns before the symbol is pushed.  With alignment
\* 0 the remainder `offset % alignment` panics as the first computation of
\* the call: nothing was written or pushed, and no Symbol is returned.
AddSymbolAlignOn(b, name, alignment, src, fault) ==
    LET offset == b.current_rodata_offset
        skip == PadSkip(offset, alignment)
        pad == PadBytes(skip)
    IN IF alignment = 0
       THEN [b |-> b, ok |-> FALSE]
       ELSE IF fault # NoFault /\ fault < skip
       THEN [b |-> [b EXCEPT !.w = Write(b.w, SubSeq(pad, 1, fault))],
             ok |-> FALSE]
       ELSE IF fault # NoFault
       THEN [b |-> [b EXCEPT !.w =
                       write_symbol_data(SubSeq(src, 1, fault - skip),
                                         Write(b.w, pad)).w],
             ok |-> FALSE]
       ELSE LET r == write_symbol_data(src, Write(b.w, pad))
                length == r.len
                sym == MakeSymbol(offset, skip, length, alignment)
            IN [b |-> [b EXCEPT
                         !.w = r.w,
                         !.symbols = Append(b.symbols, sym),
                         !.symbol_names = Append(b.symbol_names, name),
                         !.current_rodata_offset =
                             b.current_rodata_offset + sym.padded_size],
                ok |-> TRUE]

\* the Builder the actions act on
Self ==
    [w |-> w, class |-> class, encoding |-> encoding, headmap |-> headmap,
     rodata_pos |-> rodata_pos,
     current_rodata_offset |-> current_rodata_offset,
     symbols |-> symbols, symbol_names |-> symbol_names,
     shstrtab |-> shstrtab]

\* a call of add_symbol_align that returns Ok
add_symbol_align(name, alignment, src) ==
    /\ ~closed
    /\ Len(symbols) + failures < MaxSyms
    /\ alignment >= 1
    /\ LET r == AddSymbolAlignOn(Self, name, alignment, src, NoFault)
       IN /\ w' = r.b.w
          /\ symbols' = r.b.symbols
          /\ symbol_names' = r.b.symbol_names
          /\ current_rodata_offset' = r.b.current_rodata_offset
    /\ UNCHANGED <<class, encoding, headmap, rodata_pos, shstrtab, closed,
                   failures, panics, wide>>

\* a call of add_symbol_align that returns Err after the destination took
\* fault bytes
add_symbol_align_err(name, alignment, src, fault) ==
    /\ ~closed
    /\ Len(symbols) + failures < MaxSyms
    /\ alignment >= 1
    /\ fault >= 0
    /\ fault <= PadSkip(current_rodata_offset, alignment) + Len(src)
    /\ LET r == AddSymbolAlignOn(Self, name, alignment, src, fault)
       IN /\ w' = r.b.w
          /\ symbols' = r.b.symbols
          /\ symbol_names' = r.b.symbol_names
          /\ current_rodata_offset' = r.b.current_rodata_offset
    /\ failures' = failures + 1
    /\ UNCHANGED <<class, encoding, headmap, rodata_pos, shstrtab, closed,
                   calls, panics, wide, given>>

\* a call of add_symbol_align that panics: alignment 0
add_symbol_align_panic(name, alignment, src) ==
    /\ ~closed
    /\ Len(symbols) + failures + panics < MaxSyms
    /\ alignment = 0
    /\ LET r == AddSymbolAlignOn(Self, name, alignment, src, NoFault)
       IN /\ w' = r.b.w
          /\ symbols' = r.b.symbols
          /\ symbol_names' = r.b.symbol_names
          /\ current_rodata_offset' = r.b.current_rodata_offset
    /\ panics' = panics + 1
    /\ UNCHANGED <<class, encoding, headmap, rodata_pos, shstrtab, closed,
                   calls, failures, wide, given>>

\* DefaultAlign with the ELF32 word size for both classes
DefaultAlign_Always4(c) == 4

\* add_symbol: the class's word size as the alignment
DefaultAlign(c) == IF c = ELF32 THEN 4 ELSE 8

add_symbol(name, src) == add_symbol_align(name, DefaultAlign(class), src)

\* calls keeps, per registered symbol, the source bytes the caller handed in
\* and whether the call was add_symbol (the default alignment)
AddSymbol ==
    \E in \in SymbolInputs :
        /\ add_symbol(in.name, in.src)
        /\ calls' = Append(calls, [name |-> in.name, src |-> in.src,
                                   dflt |-> TRUE,
                                   alignment |-> DefaultAlign(class)])
        /\ UNCHANGED given

AddSymbolAlign ==
    \E in \in AlignedInputs :
        /\ add_symbol_align(in.name, in.alignment, in.src)
        /\ calls' = Append(calls, [name |-> in.name, src |-> in.src,
                                   dflt |-> FALSE,
                                   alignment |-> in.alignment])
        /\ UNCHANGED given

\* given keeps whether set_section_name was called and the name of the last
\* such call
SetSectionName ==
    \E n \in SectionNames :
        /\ set_section_name(n)
        /\ given' = [called |-> TRUE, last |-> n]

\* a call that ends in an I/O error: add_symbol("A", "ay") after 1 byte,
\* add_symbol_align("B", 16, "bee") before any byte, add_symbol("B", "bee")
\* after 3 bytes
FaultInputs ==
    { [name |-> <<65>>, alignment |-> 0, src |-> <<97, 121>>, fault |-> 1],
      [name |-> <<66>>, alignment |-> 16, src |-> <<98, 101, 101>>,
       fault |-> 0],
      [name |-> <<66>>, alignment |-> 0, src |-> <<98, 101, 101>>,
       fault |-> 3] }

\* alignment 0 in FaultInputs stands for add_symbol's default
AddSymbolFail ==
    \E in \in FaultInputs :
        add_symbol_align_err(in.name,
            IF in.alignment = 0 THEN DefaultAlign(class) ELSE in.alignment,
            in.src, in.fault)

(* ---------------------------- finalisation ----------------------------- *)

\* write_symbol_32 with the fields in the ELF64 entry's order
write_symbol_32_Order64(sym, e) ==
    Pack(sym.name_idx, 4, e) \o Pack(sym.info, 1, e) \o Pack(sym.other, 1, e)
    \o Pack(sym.section_idx, 2, e) \o Pack(sym.value, 4, e)
    \o Pack(sym.size, 4, e)

write_symbol_32(sym, e) ==
    Pack(sym.name_idx, 4, e) \o Pack(sym.value, 4, e) \o Pack(sym.size, 4, e)
    \o Pack(sym.info, 1, e) \o Pack(sym.other, 1, e)
    \o Pack(sym.section_idx, 2, e)

write_symbol_64(sym, e) ==
    Pack(sym.name_idx, 4, e) \o Pack(sym.info, 1, e) \o Pack(sym.other, 1, e)
    \o Pack(sym.section_idx, 2, e) \o Pack(sym.value, 8, e)
    \o Pack(sym.size, 8, e)

\* write_section_header_32 with the size written before the offset
write_section_header_32_SizeFirst(hdr, e) ==
    Pack(hdr.name_idx, 4, e) \o Pack(hdr.typ, 4, e) \o Pack(hdr.flags, 4, e)
    \o Pack(hdr.addr, 4, e) \o Pack(hdr.size, 4, e) \o Pack(hdr.offset, 4, e)
    \o Pack(hdr.link, 4, e) \o Pack(hdr.info, 4, e)
    \o Pack(hdr.addralign, 4, e) \o Pack(hdr.entsize, 4, e)

write_section_header_32(hdr, e) ==
    Pack(hdr.name_idx, 4, e) \o Pack(hdr.typ, 4, e) \o Pack(hdr.flags, 4, e)
    \o Pack(hdr.addr, 4, e) \o Pack(hdr.offset, 4, e) \o Pack(hdr.size, 4, e)
    \o Pack(hdr.link, 4, e) \o Pack(hdr.info, 4, e)
    \o Pack(hdr.addralign, 4, e) \o Pack(hdr.entsize, 4, e)

write_section_header_64(hdr, e) ==
    Pack(hdr.name_idx, 4, e) \o Pack(hdr.typ, 4, e) \o Pack(hdr.flags, 8, e)
    \o Pack(hdr.addr, 8, e) \o Pack(hdr.offset, 8, e) \o Pack(hdr.size, 8, e)
    \o Pack(hdr.link, 4, e) \o Pack(hdr.info, 4, e)
    \o Pack(hdr.addralign, 8, e) \o Pack(hdr.entsize, 8, e)

\* SymbolNameIdx advancing by name.len() without the terminator
RECURSIVE SymbolNameIdx_NoTerminator(_, _)
SymbolNameIdx_NoTerminator(names, idx) ==
    IF names = << >> THEN << >>
    ELSE <<idx>>
         \o SymbolNameIdx_NoTerminator(Tail(names), idx + Len(Head(names)))

\* the byte offset of each name in .strtab: idx starts at 1 and grows by
\* name.len() + 1 per name
RECURSIVE SymbolNameIdx(_, _)
SymbolNameIdx(names, idx) ==
    IF names = << >> THEN << >>
    ELSE <<idx>> \o SymbolNameIdx(Tail(names), idx + Len(Head(names)) + 1)

\* the .strtab body: a null byte, then every name with its terminator
RECURSIVE StrtabBody(_)
StrtabBody(names) ==
    IF names = << >> THEN << >>
    ELSE Head(names) \o <<0>> \o StrtabBody(Tail(names))

\* RodataSize summing size instead of padded_size
RECURSIVE RodataSize_RawSizes(_)
RodataSize_RawSizes(syms) ==
    IF syms = << >> THEN 0
    ELSE Head(syms).size + RodataSize_RawSizes(Tail(syms))

\* rodata_size: the sum of padded_size over the symbols
RECURSIVE RodataSize(_)
RodataSize(syms) ==
    IF syms = << >> THEN 0
    ELSE Head(syms).padded_size + RodataSize(Tail(syms))

\* rodata_align: the largest alignment over the symbols, starting from 1
RECURSIVE RodataAlign(_, _)
RodataAlign(syms, acc) ==
    IF syms = << >> THEN acc
    ELSE RodataAlign(Tail(syms),
                     IF Head(syms).alignment > acc THEN Head(syms).alignment
                                                   ELSE acc)

NullSymbol ==
    [name_idx |-> 0, value |-> 0, size |-> 0, info |-> 0, other |-> 0,
     section_idx |-> 0]

NullSection ==
    [name_idx |-> 0, typ |-> SHT_NULL, flags |-> 0, addr |-> 0, offset |-> 0,
     size |-> 0, link |-> 0, info |-> 0, addralign |-> 0, entsize |-> 0]

\* (STB_GLOBAL, STT_OBJECT): (1 << 4) | 1
GlobalObject == 17

RECURSIVE SymtabEntries32(_, _, _)
SymtabEntries32(syms, idxs, e) ==
    IF syms = << >> THEN << >>
    ELSE write_symbol_32([name_idx |-> Head(idxs),
                          value |-> AsU32(Head(syms).rodata_offset),
                          size |-> AsU32(Head(syms).size),
                          info |-> GlobalObject,
                          other |-> 0,
                          section_idx |-> 2], e)
         \o SymtabEntries32(Tail(syms), Tail(idxs), e)

\* SymtabBody32 writing the null symbol whether or not there are symbols
SymtabBody32_AlwaysNull(syms, idxs, e) ==
    write_symbol_32(NullSymbol, e) \o SymtabEntries32(syms, idxs, e)

\* the .symtab body: written only when there are symbols, the null symbol
\* first
SymtabBody32(syms, idxs, e) ==
    IF syms # << >>
    THEN write_symbol_32(NullSymbol, e) \o SymtabEntries32(syms, idxs, e)
    ELSE << >>

RECURSIVE SymtabEntries64(_, _, _)
SymtabEntries64(syms, idxs, e) ==
    IF syms = << >> THEN << >>
    ELSE write_symbol_64([name_idx |-> Head(idxs),
                          value |-> Head(syms).rodata_offset,
                          size |-> Head(syms).size,
                          info |-> GlobalObject,
                          other |-> 0,
                          section_idx |-> 2], e)
         \o SymtabEntries64(Tail(syms), Tail(idxs), e)

SymtabBody64(syms, idxs, e) ==
    IF syms # << >>
    THEN write_symbol_64(NullSymbol, e) \o SymtabEntries64(syms, idxs, e)
    ELSE << >>

write_metadata_sections_32(rpos, sym_names, syms, shstr, s, e) ==
    LET ALIGN == 4
        s1 == Align(s, ALIGN)
        shstrtab_start == s1.pos
        s2 == Write(s1, shstr)
        shstrtab_len == s2.pos - shstrtab_start
        s3 == Align(s2, ALIGN)
        strtab_start == s3.pos
        symbol_name_idx == SymbolNameIdx(sym_names, 1)
        s4 == Write(s3, <<0>> \o StrtabBody(sym_names))
        strtab_len == s4.pos - strtab_start
        s5 == Align(s4, ALIGN)
        symtab_start == s5.pos
        rodata_size == IF syms # << >> THEN RodataSize(syms) ELSE 0
        rodata_align == IF syms # << >> THEN RodataAlign(syms, 1) ELSE 1
        s6 == Write(s5, SymtabBody32(syms, symbol_name_idx, e))
        symtab_len == s6.pos - symtab_start
        s7 == Align(s6, ALIGN)
        section_header_pos == s7.pos
        s8 == Write(s7,
                write_section_header_32(NullSection, e)
                \o write_section_header_32(
                     [name_idx |-> SHSTRTAB_SHSTRTAB, typ |-> SHT_STRTAB,
                      flags |-> SHF_STRINGS, addr |-> 0,
                      offset |-> AsU32(shstrtab_start),
                      size |-> AsU32(shstrtab_len),
                      link |-> 0, info |-> 0, addralign |-> 0, entsize |-> 1],
                     e)
                \o write_section_header_32(
                     [name_idx |-> SHSTRTAB_RODATA, typ |-> SHT_PROGBITS,
                      flags |-> SHF_ALLOC, addr |-> 0,
                      offset |-> AsU32(rpos),
                      size |-> AsU32(rodata_size),
                      link |-> 0, info |-> 0,
                      addralign |-> AsU32(rodata_align), entsize |-> 0],
                     e)
                \o write_section_header_32(
                     [name_idx |-> SHSTRTAB_STRTAB, typ |-> SHT_STRTAB,
                      flags |-> SHF_STRINGS, addr |-> 0,
                      offset |-> AsU32(strtab_start),
                      size |-> AsU32(strtab_len),
                      link |-> 0, info |-> 0, addralign |-> 0, entsize |-> 1],
                     e)
                \o write_section_header_32(
                     [name_idx |-> SHSTRTAB_SYMTAB, typ |-> SHT_SYMTAB,
                      flags |-> 0, addr |-> 0,
                      offset |-> AsU32(symtab_start),
                      size |-> AsU32(symtab_len),
                      link |-> 3, info |-> 1, addralign |-> 0,
                      entsize |-> 16],
                     e))
    IN [w |-> s8, map |-> [section_header_offset |-> section_header_pos]]

write_metadata_sections_64(rpos, sym_names, syms, shstr, s, e) ==
    LET ALIGN == 8
        s1 == Align(s, ALIGN)
        shstrtab_start == s1.pos
        s2 == Write(s1, shstr)
        shstrtab_len == s2.pos - shstrtab_start
        s3 == Align(s2, ALIGN)
        strtab_start == s3.pos
        symbol_name_idx == SymbolNameIdx(sym_names, 1)
        s4 == Write(s3, <<0>> \o StrtabBody(sym_names))
        strtab_len == s4.pos - strtab_start
        s5 == Align(s4, ALIGN)
        symtab_start == s5.pos
        rodata_size == IF syms # << >> THEN RodataSize(syms) ELSE 0
        rodata_align == IF syms # << >> THEN RodataAlign(syms, 1) ELSE 1
        s6 == Write(s5, SymtabBody64(syms, symbol_name_idx, e))
        symtab_len == s6.pos - symtab_start
        s7 == Align(s6, ALIGN)
        section_header_pos == s7.pos
        s8 == Write(s7,
                write_section_header_64(NullSection, e)
                \o write_section_header_64(
                     [name_idx |-> SHSTRTAB_SHSTRTAB, typ |-> SHT_STRTAB,
                      flags |-> SHF_STRINGS, addr |-> 0,
                      offset |-> shstrtab_start, size |-> shstrtab_len,
                      link |-> 0, info |-> 0, addralign |-> 0, entsize |-> 1],
                     e)
                \o write_section_header_64(
                     [name_idx |-> SHSTRTAB_RODATA, typ |-> SHT_PROGBITS,
                      flags |-> SHF_ALLOC, addr |-> 0,
                      offset |-> rpos, size |-> rodata_size,
                      link |-> 0, info |-> 0,
                      addralign |-> rodata_align, entsize |-> 0],
                     e)
                \o write_section_header_64(
                     [name_idx |-> SHSTRTAB_STRTAB, typ |-> SHT_STRTAB,
                      flags |-> SHF_STRINGS, addr |-> 0,
                      offset |-> strtab_start, size |-> strtab_len,
                      link |-> 0, info |-> 0, addralign |-> 0, entsize |-> 1],
                     e)
                \o write_section_header_64(
                     [name_idx |-> SHSTRTAB_SYMTAB, typ |-> SHT_SYMTAB,
                      flags |-> 0, addr |-> 0,
                      offset |-> symtab_start, size |-> symtab_len,
                      link |-> 3, info |-> 1, addralign |-> 0,
                      entsize |-> 24],
                     e))
    IN [w |-> s8, map |-> [section_header_offset |-> section_header_pos]]

\* the back-patch writing the end of the file instead of the table's start
PatchSectionHeaderOffset_FinalPos(s, field, section_header_pos, c, e) ==
    LET final_pos == s.pos
        s1 == Seek(s, field)
        s2 == IF c = ELF32 THEN Write(s1, Pack(AsU32(final_pos), 4, e))
                           ELSE Write(s1, Pack(final_pos, 8, e))
    IN Seek(s2, final_pos)

\* the back-patch without the seek back to the end
PatchSectionHeaderOffset_NoSeekBack(s, field, section_header_pos, c, e) ==
    LET s1 == Seek(s, field)
    IN IF c = ELF32 THEN Write(s1, Pack(AsU32(section_header_pos), 4, e))
                    ELSE Write(s1, Pack(section_header_pos, 8, e))

\* close returning the stream without the back-patch
PatchSectionHeaderOffset_Skipped(s, field, section_header_pos, c, e) == s

\* the back-patch of close: remember the end, seek to the header field,
\* write the section header offset at the class's width, seek back
PatchSectionHeaderOffset(s, field, section_header_pos, c, e) ==
    LET final_pos == s.pos
        s1 == Seek(s, field)
        s2 == IF c = ELF32 THEN Write(s1, Pack(AsU32(section_header_pos), 4, e))
                           ELSE Write(s1, Pack(section_header_pos, 8, e))
    IN Seek(s2, final_pos)

\* the body of close on the Builder fields b: the stream it returns
CloseOn(b) ==
    LET r == IF b.class = ELF32
             THEN write_metadata_sections_32(b.rodata_pos, b.symbol_names,
                                             b.symbols, b.shstrtab, b.w,
                                             b.encoding)
             ELSE write_metadata_sections_64(b.rodata_pos, b.symbol_names,
                                             b.symbols, b.shstrtab, b.w,
                                             b.encoding)
    IN PatchSectionHeaderOffset(r.w, b.headmap.section_header_offset_field,
                                r.map.section_header_offset, b.class,
                                b.encoding)

close ==
    /\ ~closed
    /\ w' = CloseOn(Self)
    /\ closed' = TRUE
    /\ UNCHANGED <<class, encoding, headmap, rodata_pos,
                   current_rodata_offset, symbols, symbol_names, shstrtab,
                   calls, failures, panics, wide,
                   given>>

Next == AddSymbol \/ AddSymbolAlign \/ SetSectionName \/ close

Spec == Init /\ [][Next]_vars

\* the same Builder with calls that may end in an I/O error
NextErr == AddSymbol \/ AddSymbolAlign \/ AddSymbolFail \/ close

SpecErr == Init /\ [][NextErr]_vars

\* The writes of close for quantities of any 64-bit magnitude.  wide keeps
\* the quantities handed to one write and the bytes the write produces.

\* the symbol table entry of a Symbol with the given rodata_offset and size
\* (lib.rs:404-415, 583-594)
WideSymbolEntry(c, e, value, size) ==
    IF c = ELF32
    THEN Pack(1, 4, e) \o PackWide(CastU32(value), e)
         \o PackWide(CastU32(size), e)
         \o Pack(GlobalObject, 1, e) \o Pack(0, 1, e) \o Pack(2, 2, e)
    ELSE Pack(1, 4, e) \o Pack(GlobalObject, 1, e) \o Pack(0, 1, e)
         \o Pack(2, 2, e) \o PackWide(value, e) \o PackWide(size, e)

\* the .rodata section descriptor for the given rodata_pos and rodata_size
\* (lib.rs:466-481, 644-659)
WideSectionEntry(c, e, offset, size) ==
    IF c = ELF32
    THEN Pack(SHSTRTAB_RODATA, 4, e) \o Pack(SHT_PROGBITS, 4, e)
         \o Pack(SHF_ALLOC, 4, e) \o Pack(0, 4, e)
         \o PackWide(CastU32(offset), e) \o PackWide(CastU32(size), e)
         \o Pack(0, 4, e) \o Pack(0, 4, e) \o Pack(1, 4, e) \o Pack(0, 4, e)
    ELSE Pack(SHSTRTAB_RODATA, 4, e) \o Pack(SHT_PROGBITS, 4, e)
         \o Pack(SHF_ALLOC, 8, e) \o Pack(0, 8, e)
         \o PackWide(offset, e) \o PackWide(size, e)
         \o Pack(0, 4, e) \o Pack(0, 4, e) \o Pack(1, 8, e) \o Pack(0, 8, e)

\* the bytes close writes into the header's section header offset field
\* (lib.rs:262-271)
WideSectionHeaderPos(c, e, section_header_pos) ==
    IF c = ELF32 THEN PackWide(CastU32(section_header_pos), e)
                 ELSE PackWide(section_header_pos, e)

WriteWideSymbol ==
    /\ wide.kind = "none"
    /\ \E value \in WideValues, size \in WideValues :
        /\ wide' = [kind |-> "symbol", first |-> value, second |-> size,
                    bytes |-> WideSymbolEntry(class, encoding, value, size)]
        /\ UNCHANGED <<w, class, encoding, headmap, rodata_pos,
                       current_rodata_offset, symbols, symbol_names,
                       shstrtab, calls, closed, failures, panics, given>>

WriteWideSection ==
    /\ wide.kind = "none"
    /\ \E offset \in WideValues, size \in WideValues :
        /\ wide' = [kind |-> "section", first |-> offset, second |-> size,
                    bytes |-> WideSectionEntry(class, encoding, offset, size)]
        /\ UNCHANGED <<w, class, encoding, headmap, rodata_pos,
                       current_rodata_offset, symbols, symbol_names,
                       shstrtab, calls, closed, failures, panics, given>>

WriteWideSectionHeaderPos ==
    /\ wide.kind = "none"
    /\ \E pos \in WideValues :
        /\ wide' = [kind |-> "shoff", first |-> pos, second |-> pos,
                    bytes |-> WideSectionHeaderPos(class, encoding, pos)]
        /\ UNCHANGED <<w, class, encoding, headmap, rodata_pos,
                       current_rodata_offset, symbols, symbol_names,
                       shstrtab, calls, closed, failures, panics, given>>

NextWide == WriteWideSymbol \/ WriteWideSection \/ WriteWideSectionHeaderPos

SpecWide == Init /\ [][NextWide]_vars

\* the same Builder with caller-chosen alignments, alignment 0 among them
AddSymbolAnyAlign ==
    \E in \in AnyAlignedInputs :
        /\ add_symbol_align(in.name, in.alignment, in.src)
        /\ calls' = Append(calls, [name |-> in.name, src |-> in.src,
                                   dflt |-> FALSE,
                                   alignment |-> in.alignment])
        /\ UNCHANGED given

AddSymbolZeroAlign ==
    \E in \in ZeroAlignedInputs :
        add_symbol_align_panic(in.name, 0, in.src)

NextAlign == AddSymbolAnyAlign \/ AddSymbolZeroAlign \/ close

SpecAlign == Init /\ [][NextAlign]_vars

(* --------------------- reading the produced file ----------------------- *)
(* The ELF layout as a reader sees it (src/tests.rs opens the output with  *)
(* an ELF reader): class and byte order come from the identification       *)
(* bytes of the file, every other field from its fixed offset.             *)

\* byte k (0 = least significant) of the n-byte field at file offset off
FieldByte(buf, off, n, k, enc) ==
    IF enc = LSB THEN buf[off + 1 + k] ELSE buf[off + n - k]

\* the unsigned value of the n-byte field at file offset off (-1 when it
\* does not fit the checker's integers)
Unpack(buf, off, n, enc) ==
    IF off + n > Len(buf) THEN -1
    ELSE IF \E k \in 4..(n - 1) : FieldByte(buf, off, n, k, enc) # 0 THEN -1
    ELSE IF n >= 4 /\ FieldByte(buf, off, n, 3, enc) > 127 THEN -1
    ELSE LET b(k) == IF k < n THEN FieldByte(buf, off, n, k, enc) ELSE 0
         IN b(0) + 256 * b(1) + 65536 * b(2) + 16777216 * b(3)

RdClass(buf) == buf[5]
RdEnc(buf) == buf[6]

\* the file header fields
Ehdr(buf) ==
    LET e == RdEnc(buf)
        U(off, n) == Unpack(buf, off, n, e)
    IN IF RdClass(buf) = ELF32
       THEN [type |-> U(16, 2), machine |-> U(18, 2), version |-> U(20, 4),
             entry |-> U(24, 4), phoff |-> U(28, 4), shoff |-> U(32, 4),
             flags |-> U(36, 4), ehsize |-> U(40, 2), phentsize |-> U(42, 2),
             phnum |-> U(44, 2), shentsize |-> U(46, 2), shnum |-> U(48, 2),
             shstrndx |-> U(50, 2)]
       ELSE [type |-> U(16, 2), machine |-> U(18, 2), version |-> U(20, 4),
             entry |-> U(24, 8), phoff |-> U(32, 8), shoff |-> U(40, 8),
             flags |-> U(48, 4), ehsize |-> U(52, 2), phentsize |-> U(54, 2),
             phnum |-> U(56, 2), shentsize |-> U(58, 2), shnum |-> U(60, 2),
             shstrndx |-> U(62, 2)]

\* the header's section header offset and entry size
ShOff(buf) ==
    IF RdClass(buf) = ELF32 THEN Unpack(buf, 32, 4, RdEnc(buf))
                            ELSE Unpack(buf, 40, 8, RdEnc(buf))

ShEntSize(buf) ==
    IF RdClass(buf) = ELF32 THEN Unpack(buf, 46, 2, RdEnc(buf))
                            ELSE Unpack(buf, 58, 2, RdEnc(buf))

\* section descriptor i of the table the header points at
Shdr(buf, i) ==
    LET e == RdEnc(buf)
        base == ShOff(buf) + i * ShEntSize(buf)
        U(off, n) == Unpack(buf, base + off, n, e)
    IN IF RdClass(buf) = ELF32
       THEN [name |-> U(0, 4), type |-> U(4, 4), flags |-> U(8, 4),
             addr |-> U(12, 4), offset |-> U(16, 4), size |-> U(20, 4),
             link |-> U(24, 4), info |-> U(28, 4), addralign |-> U(32, 4),
             entsize |-> U(36, 4)]
       ELSE [name |-> U(0, 4), type |-> U(4, 4), flags |-> U(8, 8),
             addr |-> U(16, 8), offset |-> U(24, 8), size |-> U(32, 8),
             link |-> U(40, 4), info |-> U(44, 4), addralign |-> U(48, 8),
             entsize |-> U(56, 8)]

\* the size of one symbol table entry of the file's class
SymEntSize(buf) == IF RdClass(buf) = ELF32 THEN 16 ELSE 24

\* entry i of the symbol table described by section descriptor 4
SymEntry(buf, i) ==
    LET e == RdEnc(buf)
        base == Shdr(buf, 4).offset + i * SymEntSize(buf)
        U(off, n) == Unpack(buf, base + off, n, e)
    IN IF RdClass(buf) = ELF32
       THEN [name |-> U(0, 4), value |-> U(4, 4), size |-> U(8, 4),
             info |-> U(12, 1), other |-> U(13, 1), shndx |-> U(14, 2)]
       ELSE [name |-> U(0, 4), info |-> U(4, 1), other |-> U(5, 1),
             shndx |-> U(6, 2), value |-> U(8, 8), size |-> U(16, 8)]

\* the bytes of the file in [off, off + n)
FileBytes(buf, off, n) == SubSeq(buf, off + 1, off + n)

(* ------------------------------ claims --------------------------------- *)

\* C1: after close with N >= 1 registered symbols the symbol table is
\* (N+1) entries of 16 (ELF32) or 24 (ELF64) bytes: entry 0 is all zero and
\* entry i carries the i-th symbol's rodata_offset and size, info 0x11,
\* other 0 and section index 2, in registration order.
C1_SymbolTableEntries ==
    (closed /\ Len(symbols) >= 1) =>
        LET N == Len(symbols)
            es == IF class = ELF32 THEN 16 ELSE 24
            st == Shdr(w.buf, 4)
        IN /\ st.size = (N + 1) * es
           /\ st.offset + st.size <= Len(w.buf)
           /\ FileBytes(w.buf, st.offset, es) = Zeros(es)
           /\ \A i \in 1..N :
                LET y == SymEntry(w.buf, i)
                IN /\ y.value = symbols[i].rodata_offset
                   /\ y.size = symbols[i].size
                   /\ y.info = 17
                   /\ y.other = 0
                   /\ y.shndx = 2

C1_Witness ==
    /\ closed
    /\ Len(symbols) = 3
    /\ symbols[2].rodata_offset > 0
    /\ symbols[3].size = 3
    /\ SymEntry(w.buf, 3).value = symbols[3].rodata_offset

\* C2: the file bytes at [S + rodata_offset_i, S + rodata_offset_i + size_i),
\* S the start of the data region (the data-section descriptor's offset once
\* the file is closed), are the i-th source's bytes, and size_i is the
\* source's length; this stays so through later add_symbol calls and close.
C2_DataVerbatim ==
    LET S == IF closed THEN Shdr(w.buf, 2).offset ELSE rodata_pos
    IN /\ Len(calls) = Len(symbols)
       /\ \A i \in 1..Len(symbols) :
            /\ symbols[i].size = Len(calls[i].src)
            /\ S + symbols[i].rodata_offset + symbols[i].size <= Len(w.buf)
            /\ FileBytes(w.buf, S + symbols[i].rodata_offset, symbols[i].size)
                 = calls[i].src

C2_Witness ==
    /\ closed
    /\ Len(symbols) = 3
    /\ calls[1].src = <<97, 121>>
    /\ calls[3].src = <<98, 101, 101>>
    /\ symbols[3].rodata_offset > symbols[1].rodata_offset + 2
    /\ FileBytes(w.buf, Shdr(w.buf, 2).offset + symbols[3].rodata_offset, 3)
         = <<98, 101, 101>>

\* C3: every recorded symbol's rodata_offset is a multiple of that symbol's
\* alignment, and a symbol registered through add_symbol has alignment 4 in
\* ELF32 and 8 in ELF64.
C3_AlignmentInvariant ==
    \A i \in 1..Len(symbols) :
        /\ symbols[i].alignment >= 1
        /\ symbols[i].rodata_offset % symbols[i].alignment = 0
        /\ calls[i].dflt =>
             symbols[i].alignment = (IF class = ELF32 THEN 4 ELSE 8)

C3_Witness ==
    /\ Len(symbols) = 3
    /\ symbols[1].size = 2
    /\ symbols[2].alignment = 3
    /\ symbols[2].rodata_offset = 3
    /\ symbols[3].alignment = 16
    /\ symbols[3].rodata_offset = 16

\* C4: the first symbol is at rodata_offset 0 and each later one at the
\* smallest multiple of its alignment that is >= the previous symbol's
\* rodata_offset + size, so ranges do not overlap; sources of 2, 3 and 3
\* bytes through add_symbol land at 0, 4, 8 in ELF32 and 0, 8, 16 in ELF64.
C4_Offsets ==
    /\ Len(symbols) >= 1 => symbols[1].rodata_offset = 0
    /\ \A i \in 2..Len(symbols) :
         LET prevEnd == symbols[i - 1].rodata_offset + symbols[i - 1].size
             a == symbols[i].alignment
         IN /\ symbols[i].rodata_offset >= prevEnd
            /\ symbols[i].rodata_offset % a = 0
            /\ symbols[i].rodata_offset - prevEnd < a
    /\ ( /\ Len(symbols) = 3
         /\ \A i \in 1..3 : calls[i].dflt
         /\ [i \in 1..3 |-> Len(calls[i].src)] = <<2, 3, 3>> )
       => [i \in 1..3 |-> symbols[i].rodata_offset]
            = (IF class = ELF32 THEN <<0, 4, 8>> ELSE <<0, 8, 16>>)

C4_Witness ==
    /\ Len(symbols) = 3
    /\ class = ELF64
    /\ \A i \in 1..3 : calls[i].dflt
    /\ [i \in 1..3 |-> Len(calls[i].src)] = <<2, 3, 3>>
    /\ symbols[3].rodata_offset = 16

\* x rounded up to a multiple of a
RoundUp(x, a) == ((x + a - 1) \div a) * a

\* C5: every recorded symbol's padded_size is its size rounded up to a
\* multiple of its alignment; sources of 2, 3 and 3 bytes through add_symbol
\* get padded_size 4, 4, 4 in ELF32 and 8, 8, 8 in ELF64.
C5_PaddedSizeRounded ==
    /\ \A i \in 1..Len(symbols) :
         symbols[i].padded_size = RoundUp(symbols[i].size, symbols[i].alignment)
    /\ ( /\ Len(symbols) = 3
         /\ \A i \in 1..3 : calls[i].dflt
         /\ [i \in 1..3 |-> Len(calls[i].src)] = <<2, 3, 3>> )
       => [i \in 1..3 |-> symbols[i].padded_size]
            = (IF class = ELF32 THEN <<4, 4, 4>> ELSE <<8, 8, 8>>)

\* C6 as stated: with no symbols the closed file's symbol table is exactly
\* one entry (16 bytes in ELF32, 24 in ELF64).
C6_ZeroSymbolsOneEntry ==
    (closed /\ symbols = << >>) =>
        Shdr(w.buf, 4).size = (IF class = ELF32 THEN 16 ELSE 24)

\* C6 amended: with no symbols the closed file's symbol table is empty
\* (length 0, not even the all-zero entry); its descriptor still declares
\* the class's entry size, and it ends where the section header table
\* starts.
C6_ZeroSymbolsEmptyTable ==
    (closed /\ symbols = << >>) =>
        LET st == Shdr(w.buf, 4)
        IN /\ st.type = SHT_SYMTAB
           /\ st.size = 0
           /\ st.entsize = (IF class = ELF32 THEN 16 ELSE 24)
           /\ st.offset = Ehdr(w.buf).shoff

C6_Witness ==
    /\ closed
    /\ symbols = << >>
    /\ class = ELF64
    /\ encoding = MSB
    /\ Shdr(w.buf, 4).size = 0

\* C7: the header describes what is written: declared header size 52
\* (ELF32) or 64 (ELF64), which is where the header ends and the data region
\* starts; section header entry size 40 / 64 and count 5, which once closed
\* is exactly the table lying from the section header offset to the end of
\* the file; no program headers; section-name-table index 1.
C7_HeaderSelfDescribing ==
    LET h == Ehdr(w.buf)
    IN /\ RdClass(w.buf) = class
       /\ RdEnc(w.buf) = encoding
       /\ h.ehsize = (IF class = ELF32 THEN 52 ELSE 64)
       /\ h.ehsize = rodata_pos
       /\ h.shentsize = (IF class = ELF32 THEN 40 ELSE 64)
       /\ h.shnum = 5
       /\ h.phoff = 0
       /\ h.phnum = 0
       /\ h.phentsize = 0
       /\ h.shstrndx = 1
       /\ closed => Len(w.buf) - h.shoff = h.shnum * h.shentsize

C7_Witness ==
    /\ closed
    /\ class = ELF32
    /\ encoding = MSB
    /\ Len(symbols) = 2
    /\ Ehdr(w.buf).ehsize = 52
    /\ Ehdr(w.buf).shoff > 52

\* C8: after close the header's section header offset is where the section
\* header table starts: it equals the end of the symbol table content, and
\* from it to the end of the file lie exactly 5 descriptors of the class's
\* entry size (null, string table, program data, string table, symbol
\* table).
C8_SectionHeaderOffset ==
    closed =>
        LET h == Ehdr(w.buf)
            st == Shdr(w.buf, 4)
            es == IF class = ELF32 THEN 40 ELSE 64
        IN /\ h.shoff > 0
           /\ h.shoff = st.offset + st.size
           /\ Len(w.buf) = h.shoff + 5 * es
           /\ [i \in 1..5 |-> Shdr(w.buf, i - 1).type]
                = <<SHT_NULL, SHT_STRTAB, SHT_PROGBITS, SHT_STRTAB, SHT_SYMTAB>>

C8_Witness ==
    /\ closed
    /\ Len(symbols) = 3
    /\ class = ELF64
    /\ Shdr(w.buf, 4).size = 96
    /\ Ehdr(w.buf).shoff = Shdr(w.buf, 4).offset + 96

\* C9: when close returns, the stream position is the end of the section
\* header table, which is the end of the file, and not inside the header.
C9_FinalPosition ==
    closed =>
        LET h == Ehdr(w.buf)
        IN /\ w.pos = Len(w.buf)
           /\ w.pos = h.shoff + h.shnum * h.shentsize
           /\ w.pos > h.ehsize

C9_Witness ==
    /\ closed
    /\ Len(symbols) = 1
    /\ w.pos = Len(w.buf)
    /\ Len(w.ow) = 2
    /\ w.ow[2].at < Ehdr(w.buf).ehsize

\* C10: until close the section header offset field holds the placeholder
\* zero and the only write over already-written bytes is the header-size
\* resolution made by the header writer; close adds exactly one more, the
\* section header offset at the class's width, and the field is then
\* non-zero.
C10_SlotsResolvedOnce ==
    LET h == Ehdr(w.buf)
        sizeSlot == [at |-> IF class = ELF32 THEN 40 ELSE 52, len |-> 2]
        shoffSlot == [at |-> IF class = ELF32 THEN 32 ELSE 40,
                      len |-> IF class = ELF32 THEN 4 ELSE 8]
    IN /\ headmap.section_header_offset_field = shoffSlot.at
       /\ ~closed => (h.shoff = 0 /\ w.ow = <<sizeSlot>>)
       /\ closed => (h.shoff > 0 /\ w.ow = <<sizeSlot, shoffSlot>>)

C10_Witness ==
    /\ closed
    /\ Len(symbols) = 2
    /\ Len(w.ow) = 2
    /\ Ehdr(w.buf).shoff > 0

\* the end of symbol i-1's bytes in the data region (0 before the first)
PrevEnd(i) ==
    IF i = 1 THEN 0 ELSE symbols[i - 1].rodata_offset + symbols[i - 1].size

\* C11: the bytes add_symbol / add_symbol_align insert before a symbol, from
\* the end of the previous symbol's data to the symbol's rodata_offset, are
\* all 0x20; they are padded_size - size many, lie outside every symbol's
\* range, and size counts the source's bytes only.
C11_PaddingIsSpace ==
    \A i \in 1..Len(symbols) :
        LET gap == symbols[i].rodata_offset - PrevEnd(i)
        IN /\ gap >= 0
           /\ gap = symbols[i].padded_size - symbols[i].size
           /\ symbols[i].size = Len(calls[i].src)
           /\ FileBytes(w.buf, rodata_pos + PrevEnd(i), gap)
                = [k \in 1..gap |-> 32]

C11_Witness ==
    /\ closed
    /\ Len(symbols) = 3
    /\ symbols[2].rodata_offset - PrevEnd(2) = 2
    /\ symbols[3].rodata_offset - PrevEnd(3) >= 5
    /\ FileBytes(w.buf, rodata_pos + PrevEnd(2), 2) = <<32, 32>>

\* the null-terminated string at offset off of a string table
RECURSIVE CStr(_, _)
CStr(tab, off) ==
    IF off + 1 > Len(tab) \/ tab[off + 1] = 0 THEN << >>
    ELSE <<tab[off + 1]>> \o CStr(tab, off + 1)

\* the body of the section that descriptor i describes
SectionBody(buf, i) ==
    LET d == Shdr(buf, i) IN FileBytes(buf, d.offset, d.size)

\* C12: the section-name table close writes is a null byte, ".shstrtab" at
\* offset 1, ".strtab" at 11, ".symtab" at 19 and at 27 the name of the last
\* set_section_name call (".rodata" when there was none), null-terminated,
\* and nothing else: names of earlier calls are gone.
C12_SectionNameTable ==
    closed =>
        LET tab == SectionBody(w.buf, 1)
            name == IF ~given.called THEN <<46, 114, 111, 100, 97, 116, 97>>
                                       ELSE given.last
        IN /\ Len(tab) = 27 + Len(name) + 1
           /\ tab[1] = 0
           /\ CStr(tab, 1) = <<46, 115, 104, 115, 116, 114, 116, 97, 98>>
           /\ CStr(tab, 11) = <<46, 115, 116, 114, 116, 97, 98>>
           /\ CStr(tab, 19) = <<46, 115, 121, 109, 116, 97, 98>>
           /\ CStr(tab, 27) = name
           /\ tab[Len(tab)] = 0

C12_Witness ==
    /\ closed
    /\ given.called
    /\ given.last = <<46, 100>>
    /\ Len(symbols) = 1
    /\ Len(SectionBody(w.buf, 1)) = 30

\* the data-section name the caller chose (".rodata" without a call)
DataSectionName ==
    IF ~given.called THEN <<46, 114, 111, 100, 97, 116, 97>> ELSE given.last

\* C13: the closed file's section header table is (0) an all-zero
\* descriptor, (1) the section-name string table, (2) the data section, (3)
\* the symbol-name string table, (4) the symbol table; the hard-wired
\* indices point at them (header name-table index 1, symbols' section index
\* 2, symbol table link 3 and info 1); each descriptor's offset and size are
\* those of the body written, and each body starts at a multiple of the
\* class width right after the previous body.
C13_SectionHeaderTable ==
    closed =>
        LET h == Ehdr(w.buf)
            d1 == Shdr(w.buf, 1)
            d2 == Shdr(w.buf, 2)
            d3 == Shdr(w.buf, 3)
            d4 == Shdr(w.buf, 4)
            cw == IF class = ELF32 THEN 4 ELSE 8
            names == SectionBody(w.buf, h.shstrndx)
            Follows(start, prevEnd) ==
                /\ start % cw = 0
                /\ start >= prevEnd
                /\ start - prevEnd < cw
        IN /\ h.shnum = 5
           /\ h.shstrndx = 1
           /\ FileBytes(w.buf, h.shoff, h.shentsize) = Zeros(h.shentsize)
           /\ d1.type = SHT_STRTAB
           /\ d1.flags = 32
           /\ CStr(names, d1.name)
                = <<46, 115, 104, 115, 116, 114, 116, 97, 98>>
           /\ SectionBody(w.buf, 1) = shstrtab
           /\ Follows(d1.offset, rodata_pos + current_rodata_offset)
           /\ d2.type = SHT_PROGBITS
           /\ d2.flags = 2
           /\ CStr(names, d2.name) = DataSectionName
           /\ d2.offset = rodata_pos
           /\ d2.offset % cw = 0
           /\ d3.type = SHT_STRTAB
           /\ CStr(names, d3.name) = <<46, 115, 116, 114, 116, 97, 98>>
           /\ Follows(d3.offset, d1.offset + d1.size)
           /\ SectionBody(w.buf, 3)[1] = 0
           /\ d4.type = SHT_SYMTAB
           /\ CStr(names, d4.name) = <<46, 115, 121, 109, 116, 97, 98>>
           /\ Follows(d4.offset, d3.offset + d3.size)
           /\ d4.link = 3
           /\ d4.info = 1
           /\ d4.offset + d4.size = h.shoff
           /\ \A i \in 1..Len(symbols) : SymEntry(w.buf, i).shndx = 2

C13_Witness ==
    /\ closed
    /\ class = ELF64
    /\ Len(symbols) = 2
    /\ given.last = <<46, 100>>
    /\ Shdr(w.buf, 3).offset % 8 = 0
    /\ Shdr(w.buf, 3).offset > Shdr(w.buf, 1).offset + Shdr(w.buf, 1).size
    /\ Shdr(w.buf, 4).link = 3

\* the sum of padded_size over the first n symbols
RECURSIVE SumPadded(_)
SumPadded(n) == IF n = 0 THEN 0 ELSE SumPadded(n - 1) + symbols[n].padded_size

\* C14: the closed file's data-section descriptor has offset = the position
\* right after the header (52 in ELF32, 64 in ELF64), size = the sum of
\* padded_size over the symbols = the Builder's running cursor = the last
\* symbol's rodata_offset + size (0 without symbols), and alignment = the
\* largest alignment of a symbol, 1 without symbols.
C14_DataSectionDescriptor ==
    closed =>
        LET d == Shdr(w.buf, 2)
            N == Len(symbols)
        IN /\ d.offset = rodata_pos
           /\ d.offset = (IF class = ELF32 THEN 52 ELSE 64)
           /\ d.size = SumPadded(N)
           /\ d.size = current_rodata_offset
           /\ d.size = PrevEnd(N + 1)
           /\ \A i \in 1..N : d.addralign >= symbols[i].alignment
           /\ N = 0 => d.addralign = 1
           /\ N > 0 => \E i \in 1..N : d.addralign = symbols[i].alignment

C14_Witness ==
    /\ closed
    /\ Len(symbols) = 3
    /\ symbols[2].alignment = 16
    /\ symbols[3].alignment = 3
    /\ Shdr(w.buf, 2).addralign = 16
    /\ Shdr(w.buf, 2).size > symbols[1].size + symbols[2].size + symbols[3].size

\* the offset of the i-th registered name in the symbol-name table
RECURSIVE NameOffset(_)
NameOffset(i) ==
    IF i = 1 THEN 1 ELSE NameOffset(i - 1) + Len(calls[i - 1].name) + 1

\* C15: the symbol-name table of the closed file is a null byte followed by
\* every registered name and its terminator, in registration order,
\* duplicates included; symbol entry i's name offset is 1 plus the sum of
\* (length + 1) of the earlier names and resolves to the i-th name; the name
\* list and the symbol list have the same length.
C15_SymbolNameTable ==
    /\ Len(symbol_names) = Len(symbols)
    /\ closed =>
         LET tab == SectionBody(w.buf, 3)
             N == Len(calls)
         IN /\ N = Len(symbols)
            /\ Len(tab) = NameOffset(N + 1)
            /\ tab[1] = 0
            /\ \A i \in 1..N :
                 /\ i <= Len(symbols)
                 /\ SymEntry(w.buf, i).name = NameOffset(i)
                 /\ CStr(tab, SymEntry(w.buf, i).name) = calls[i].name
                 /\ FileBytes(tab, NameOffset(i), Len(calls[i].name) + 1)
                      = calls[i].name \o <<0>>

C15_Witness ==
    /\ closed
    /\ Len(symbols) = 3
    /\ calls[1].name = <<67, 67>>
    /\ calls[2].name = <<65>>
    /\ calls[3].name = <<65>>
    /\ SymEntry(w.buf, 3).name = 6

\* a step in which add_symbol / add_symbol_align returned Ok
Registered == Len(symbols') = Len(symbols) + 1

\* C16 as stated: every successful add_symbol / add_symbol_align call
\* strictly increases the length of the output.
C16_StrictlyLonger ==
    [][Registered => Len(w'.buf) > Len(w.buf)]_vars

\* C16 amended: a successful call lengthens the output by exactly the
\* returned padded_size (padding plus source bytes) and never shortens it;
\* the output gets longer exactly when the source is not empty or the
\* cursor is not a multiple of the alignment.
C16_GrowsByPaddedSize ==
    [][Registered =>
         LET sym == symbols'[Len(symbols')]
             src == calls'[Len(calls')].src
         IN /\ Len(w'.buf) = Len(w.buf) + sym.padded_size
            /\ Len(w'.buf) >= Len(w.buf)
            /\ Len(w'.buf) > Len(w.buf)
                 <=> (src # << >>
                      \/ current_rodata_offset % sym.alignment # 0)]_vars

\* a zero-length source registered at an aligned cursor, after a symbol
\* that did lengthen the output
C16_Witness ==
    /\ Len(symbols) = 2
    /\ symbols[1].padded_size = 2
    /\ calls[2].src = << >>
    /\ symbols[2].padded_size = 0
    /\ Len(w.buf) = rodata_pos + 2

(* ------------------- the same run in the other byte order -------------- *)

OtherEncoding(e) == IF e = LSB THEN MSB ELSE LSB

\* the Builder fields after the first n registered calls on b
RECURSIVE ReplayCalls(_, _)
ReplayCalls(b, n) ==
    IF n = 0 THEN b
    ELSE LET c == calls[n]
             p == ReplayCalls(b, n - 1)
         IN AddSymbolAlignOn(p, c.name,
                IF c.dflt THEN DefaultAlign(p.class) ELSE c.alignment,
                c.src, NoFault).b

\* The Builder and stream that the operations of this run (Builder::new
\* with the same class, machine and flags, the same set_section_name and
\* add_symbol calls, close if it was called) give with encoding e.
Replay(e) ==
    LET hdr == CHOOSE h \in Headers : h.class = class /\ h.encoding = e
        b0 == [New(hdr, EmptyStream) EXCEPT !.shstrtab = shstrtab]
        b == ReplayCalls(b0, Len(calls))
    IN [b |-> b, w |-> IF closed THEN CloseOn(b) ELSE b.w]

\* field widths of the ELF layout, in file order: the header after the 16
\* identification bytes, one symbol table entry, one section descriptor
HeaderWidths(c) ==
    IF c = ELF32 THEN <<2, 2, 4, 4, 4, 4, 4, 2, 2, 2, 2, 2, 2>>
                 ELSE <<2, 2, 4, 8, 8, 8, 4, 2, 2, 2, 2, 2, 2>>

SymbolWidths(c) ==
    IF c = ELF32 THEN <<4, 4, 4, 1, 1, 2>> ELSE <<4, 1, 1, 2, 8, 8>>

SectionWidths(c) ==
    IF c = ELF32 THEN <<4, 4, 4, 4, 4, 4, 4, 4, 4, 4>>
                 ELSE <<4, 4, 8, 8, 8, 8, 4, 4, 8, 8>>

RECURSIVE Repeat(_, _)
Repeat(ws, n) == IF n = 0 THEN << >> ELSE ws \o Repeat(ws, n - 1)

\* a and b hold, from offset off on, integer fields of the widths ws with
\* the same values in opposite byte orders, and end there
RECURSIVE FieldsMirrored(_, _, _, _)
FieldsMirrored(a, b, off, ws) ==
    IF ws = << >> THEN off = Len(a) /\ off = Len(b)
    ELSE /\ off + Head(ws) <= Len(a)
         /\ off + Head(ws) <= Len(b)
         /\ \A k \in 1..Head(ws) : a[off + k] = b[off + Head(ws) + 1 - k]
         /\ FieldsMirrored(a, b, off + Head(ws), Tail(ws))

\* Files a (least significant byte first) and b differ only in the encoding
\* byte and in the byte order of each integer field: the identification
\* bytes and everything from the end of the header to the symbol table (the
\* data region and the two string tables) are equal byte for byte, and the
\* header fields, the symbol table entries and the section descriptors are
\* mirrored.  An unclosed file ends after the data region.
SameButByteOrder(a, b, c, isClosed) ==
    LET hw == HeaderWidths(c)
        hlen == IF c = ELF32 THEN 52 ELSE 64
        st == Shdr(a, 4)
        bodyEnd == IF isClosed THEN st.offset ELSE Len(a)
        nsyms == IF isClosed THEN st.size \div SymEntSize(a) ELSE 0
        tail == IF isClosed
                THEN Repeat(SymbolWidths(c), nsyms)
                     \o Repeat(SectionWidths(c), 5)
                ELSE << >>
    IN /\ Len(a) = Len(b)
       /\ FileBytes(a, 0, 5) = FileBytes(b, 0, 5)
       /\ a[6] = LSB
       /\ b[6] = MSB
       /\ FileBytes(a, 6, 10) = FileBytes(b, 6, 10)
       /\ FieldsMirrored(SubSeq(a, 1, hlen), SubSeq(b, 1, hlen), 16, hw)
       /\ bodyEnd >= hlen
       /\ bodyEnd <= Len(a)
       /\ FileBytes(a, hlen, bodyEnd - hlen) = FileBytes(b, hlen, bodyEnd - hlen)
       /\ FieldsMirrored(a, b, bodyEnd, tail)

\* C17: the run with the other encoding and otherwise the same operations
\* records the same Symbols and cursor, leaves the stream at the same
\* position, and produces a file of the same length that differs only in
\* the encoding identification byte and in the byte order inside each
\* multi-byte integer field.
C17_EncodingsAgree ==
    LET t == Replay(OtherEncoding(encoding))
        le == IF encoding = LSB THEN w.buf ELSE t.w.buf
        be == IF encoding = LSB THEN t.w.buf ELSE w.buf
    IN /\ t.b.symbols = symbols
       /\ t.b.symbol_names = symbol_names
       /\ t.b.current_rodata_offset = current_rodata_offset
       /\ t.b.rodata_pos = rodata_pos
       /\ t.w.pos = w.pos
       /\ SameButByteOrder(le, be, class, closed)

C17_Witness ==
    /\ closed
    /\ encoding = MSB
    /\ class = ELF64
    /\ Len(symbols) = 2
    /\ symbols[2].alignment = 16
    /\ given.last = <<46, 100>>
    /\ Replay(LSB).w.buf[6] = LSB
    /\ Replay(LSB).w.buf # w.buf

(* ------------------- the minimal reference output ---------------------- *)

MinimalReference ==
    /\ closed
    /\ class = ELF32
    /\ encoding = LSB
    /\ calls = << >>
    /\ ~given.called

\* C18 as stated: in the minimal reference output four padding bytes follow
\* the 52-byte header and the section-name table starts at file offset 56.
C18_NameTableAt56 ==
    MinimalReference => Shdr(w.buf, 1).offset = 56

\* C18: in the minimal reference output (ELF32, least significant byte
\* first, no symbols, default section name) no padding follows the 52-byte
\* header: 52 is a multiple of 4, the data region is empty, and the
\* section-name table starts at file offset 52, directly after the header;
\* its first bytes are the table itself, not zero fill.
C18_NameTableAt52 ==
    MinimalReference =>
        /\ Ehdr(w.buf).ehsize = 52
        /\ rodata_pos = 52
        /\ Shdr(w.buf, 1).offset = 52
        /\ Shdr(w.buf, 1).size = Len(SHSTRTAB)
        /\ FileBytes(w.buf, 52, Len(SHSTRTAB)) = SHSTRTAB
        /\ Shdr(w.buf, 2).offset = 52
        /\ Shdr(w.buf, 2).size = 0
        /\ Shdr(w.buf, 3).offset = 52 + 36
        /\ Len(w.buf) = 52 + 36 + 4 + 5 * 40

C18_Witness ==
    /\ MinimalReference
    /\ FileBytes(w.buf, 52, 4) = <<0, 46, 115, 104>>

(* ------------------- calls that end in an I/O error -------------------- *)

\* the bytes a call of FaultInputs sends to the destination when nothing
\* fails: the padding for the cursor, then the source
Intended(in) ==
    LET a == IF in.alignment = 0 THEN DefaultAlign(class) ELSE in.alignment
    IN PadBytes(PadSkip(current_rodata_offset, a)) \o in.src

\* C19: a call of add_symbol/add_symbol_align that ends in an I/O error
\* registers nothing: the symbol list, the name list and the running
\* data-region cursor are as before the call.  Nothing is retried: the
\* destination received, once, the bytes written before the error, a prefix
\* of the padding and data of the call, and no earlier byte was rewritten.
C19_FailureRegistersNothing ==
    [][failures' > failures =>
         /\ symbols' = symbols
         /\ symbol_names' = symbol_names
         /\ current_rodata_offset' = current_rodata_offset
         /\ w'.ow = w.ow
         /\ \E in \in FaultInputs :
               w'.buf = w.buf \o SubSeq(Intended(in), 1, in.fault)]_vars

C19_Witness ==
    /\ ~closed
    /\ failures = 1
    /\ Len(symbols) = 1
    /\ symbols[1].size = 2
    /\ current_rodata_offset = 2
    /\ Len(w.buf) = rodata_pos + 3

\* C20: between calls the stream's write position is the data-region start
\* plus the running data-region cursor, whether or not earlier calls ended
\* in an I/O error.
C20_PositionIsCursor ==
    ~closed => w.pos = rodata_pos + current_rodata_offset

(* ------------------- alignment 0 and arbitrary alignments -------------- *)

\* what add_symbol_align does on the Builder as it stands: with alignment 0
\* no Symbol is returned and the Builder is untouched; with each alignment
\* >= 1, power of two or not, the call returns the Symbol it pushed, which
\* carries that alignment and an offset that is a multiple of it
AlignmentOutcomes ==
    ~closed =>
        /\ \A in \in ZeroAlignedInputs :
              LET r == AddSymbolAlignOn(Self, in.name, 0, in.src, NoFault)
              IN ~r.ok /\ r.b = Self
        /\ \A in \in AnyAlignedInputs :
              LET r == AddSymbolAlignOn(Self, in.name, in.alignment, in.src,
                                        NoFault)
                  sym == r.b.symbols[Len(r.b.symbols)]
              IN /\ r.ok
                 /\ Len(r.b.symbols) = Len(symbols) + 1
                 /\ sym.alignment = in.alignment
                 /\ sym.size = Len(in.src)
                 /\ sym.rodata_offset % in.alignment = 0

\* C21: add_symbol_align with alignment 0 never returns a Symbol: the call
\* panics on `offset % alignment` before any byte is written and before a
\* symbol or a name is recorded, so the stream, the lists and the cursor are
\* as before the call.  Every alignment >= 1, power of two or not, is
\* accepted: the call registers a Symbol with that alignment.
C21_ZeroAlignmentPanics ==
    /\ []AlignmentOutcomes
    /\ [][/\ panics' > panics =>
                /\ w' = w
                /\ symbols' = symbols
                /\ symbol_names' = symbol_names
                /\ current_rodata_offset' = current_rodata_offset
                /\ calls' = calls
          /\ Len(calls') > Len(calls) =>
                /\ calls'[Len(calls')].alignment >= 1
                /\ Len(symbols') = Len(symbols) + 1
                /\ symbols'[Len(symbols')].alignment =
                       calls'[Len(calls')].alignment]_vars

C21_Witness ==
    /\ panics = 2
    /\ Len(symbols) = 3
    /\ symbols[1].alignment = 5
    /\ symbols[2].alignment = 6
    /\ symbols[2].rodata_offset = 6
    /\ symbols[3].alignment = 2
    /\ closed

(* ------------------- 64-bit quantities in 32-bit fields ---------------- *)

\* the unsigned integer held by a field, as limbs, least significant first
UnpackWide(bytes, enc) ==
    LET n == Len(bytes)
        B(k) == IF enc = LSB THEN bytes[k + 1] ELSE bytes[n - k]
    IN [j \in 1..(n \div 2) |-> B(2 * j - 2) + 256 * B(2 * j - 1)]

Below2p32(v) == v[3] = 0 /\ v[4] = 0

Mod2p32(v) == <<v[1], v[2], 0, 0>>

\* file offsets, inside the entry written, of the two quantities of a
\* symbol table entry (st_value, st_size), of a section descriptor
\* (sh_offset, sh_size), and of the header field (e_shoff, alone)
WideFieldOffsets(kind, c) ==
    IF kind = "symbol" THEN (IF c = ELF32 THEN <<4, 8>> ELSE <<8, 16>>)
    ELSE IF kind = "section" THEN (IF c = ELF32 THEN <<16, 20>> ELSE <<24, 32>>)
    ELSE <<0, 0>>

WideEntrySize(kind, c) ==
    IF kind = "symbol" THEN (IF c = ELF32 THEN 16 ELSE 24)
    ELSE IF kind = "section" THEN (IF c = ELF32 THEN 40 ELSE 64)
    ELSE (IF c = ELF32 THEN 4 ELSE 8)

\* the field at offset off holds v modulo 2^32 in four bytes (ELF32), and so
\* holds v exactly when v < 2^32; it holds v in eight bytes (ELF64)
FieldHolds(bytes, off, v) ==
    IF class = ELF32
    THEN LET f == UnpackWide(FileBytes(bytes, off, 4), encoding) \o <<0, 0>>
         IN /\ f = Mod2p32(v)
            /\ (f = v) <=> Below2p32(v)
    ELSE UnpackWide(FileBytes(bytes, off, 8), encoding) = v

\* C22: in ELF32 a symbol's offset and size, a section's offset and size and
\* the section header table offset are written as their value modulo 2^32,
\* whatever the value: the four-byte field equals the tracked quantity
\* exactly when the quantity is below 2^32, and the write does not fail.  In
\* ELF64 the eight-byte field holds the quantity unmodified.
C22_Truncation ==
    wide.kind # "none" =>
        LET offs == WideFieldOffsets(wide.kind, class)
        IN /\ Len(wide.bytes) = WideEntrySize(wide.kind, class)
           /\ FieldHolds(wide.bytes, offs[1], wide.first)
           /\ FieldHolds(wide.bytes, offs[2], wide.second)

C22_Witness ==
    /\ class = ELF32
    /\ encoding = MSB
    /\ wide.kind = "symbol"
    /\ wide.first = <<1, 0, 1, 0>>
    /\ wide.second = <<65535, 65535, 0, 0>>
    /\ FileBytes(wide.bytes, 4, 4) = <<0, 0, 0, 1>>
    /\ FileBytes(wide.bytes, 8, 4) = <<255, 255, 255, 255>>
====
